---- MODULE Spec2Model ----
(***************************************************************************)
(* Model of the Arabic Stream Hub addon (src/addon.js): the stream         *)
(* handler with its per-candidate unlock protocol and peer-to-peer         *)
(* fallback, the configure handler that stores the process-wide debrid     *)
(* key, and the pure helpers they use (file selection, info-hash regexp,   *)
(* query-string parsing).                                                  *)
(*                                                                         *)
(* JavaScript strings that the code inspects, splits or concatenates are   *)
(* sequences of one-character strings.  Strings the code only passes       *)
(* through (locators returned by the debrid service) are atomic strings.   *)
(*                                                                         *)
(* Three specifications: Spec (the resolution of an injected candidate     *)
(* list), SpecShipped (the handlers with the placeholder candidate list    *)
(* of the source) and SpecSelect (the file selection alone).               *)
(***************************************************************************)
EXTENDS Integers, Sequences, FiniteSets, TLC

VARIABLES GLOBAL_DEBRID_API_KEY, configureHtml, lastPosted,
          pc, id, type, debridApiKey, contentId, title, year, detailError,
          potentialMagnetLinks, magnetIdx, streams,
          files, links, mainFile, calls, noVideo

vars == <<GLOBAL_DEBRID_API_KEY, configureHtml, lastPosted,
          pc, id, type, debridApiKey, contentId, title, year, detailError,
          potentialMagnetLinks, magnetIdx, streams,
          files, links, mainFile, calls, noVideo>>

(***************************************************************************)
(* Bounds of the model.                                                    *)
(***************************************************************************)
MaxFiles == 3

MaxCands == 2

(***************************************************************************)
(* Characters and string helpers.                                          *)
(***************************************************************************)
LowerChars == <<"a","b","c","d","e","f","g","h","i","j","k","l","m","n","o","p","q","r","s","t","u","v","w","x","y","z">>

UpperChars == <<"A","B","C","D","E","F","G","H","I","J","K","L","M","N","O","P","Q","R","S","T","U","V","W","X","Y","Z">>

DigitChars == <<"0","1","2","3","4","5","6","7","8","9">>

Range(s) == {s[k] : k \in 1..Len(s)}

Rep(c, n) == [k \in 1..n |-> c]

\* The JavaScript value undefined where a string is expected; no string of
\* characters equals it, and a template literal prints it as "undefined".
Undefined == <<"#undefined">>

Str(v) == IF v = Undefined THEN <<"u","n","d","e","f","i","n","e","d">> ELSE v

\* String.prototype.toLowerCase on the ASCII letters.
toLowerCase(s) ==
    [k \in 1..Len(s) |->
        IF \E j \in 1..26 : UpperChars[j] = s[k]
        THEN LowerChars[CHOOSE j \in 1..26 : UpperChars[j] = s[k]]
        ELSE s[k]]

\* String.prototype.endsWith
endsWith(s, ext) ==
    /\ Len(s) >= Len(ext)
    /\ SubSeq(s, Len(s) - Len(ext) + 1, Len(s)) = ext

\* String.prototype.startsWith
startsWith(s, pre) ==
    /\ Len(s) >= Len(pre)
    /\ SubSeq(s, 1, Len(pre)) = pre

\* String.prototype.substring(from) and substring(0, to), 0-based as in JS.
substringFrom(s, from) == SubSeq(s, from + 1, Len(s))

substringTo(s, to) == SubSeq(s, 1, IF to < Len(s) THEN to ELSE Len(s))

\* String.prototype.split(sep) for a one-character separator.
RECURSIVE split(_, _)
split(s, sep) ==
    IF \A k \in 1..Len(s) : s[k] # sep
    THEN <<s>>
    ELSE LET k == CHOOSE j \in 1..Len(s) :
                     s[j] = sep /\ \A h \in 1..(j - 1) : s[h] # sep
         IN  <<SubSeq(s, 1, k - 1)>> \o split(SubSeq(s, k + 1, Len(s)), sep)

\* Array.prototype.pop applied to a fresh array: its last element.
pop(a) == a[Len(a)]

(***************************************************************************)
(* File selection of the inspect step (files.reduce, initial value null).  *)
(* An optional file is a sequence of zero (null) or one entry.             *)
(***************************************************************************)
videoExtensions ==
    << <<".","m","k","v">>, <<".","m","p","4">>, <<".","a","v","i">>,
       <<".","m","o","v">>, <<".","w","e","b","m">> >>

\* As isVideo, but without lower-casing the path.
isVideoCaseSensitive(path) ==
    \E k \in 1..Len(videoExtensions) : endsWith(path, videoExtensions[k])

isVideo(path) ==
    \E k \in 1..Len(videoExtensions) :
        endsWith(toLowerCase(path), videoExtensions[k])

\* As keepPrev, but the current best is also kept on equal sizes.
keepPrevOrEqual(prev, current) == prev # <<>> /\ prev[1].bytes >= current.bytes

\* The comparison that decides whether the current best is kept.
keepPrev(prev, current) == prev # <<>> /\ prev[1].bytes > current.bytes

\* The reducer callback.
reducer(prev, current) ==
    IF isVideo(current.path)
    THEN (IF keepPrev(prev, current) THEN prev ELSE <<current>>)
    ELSE prev

RECURSIVE reduceFrom(_, _, _)
reduceFrom(fs, k, acc) ==
    IF k > Len(fs) THEN acc ELSE reduceFrom(fs, k + 1, reducer(acc, fs[k]))

mainFileOf(fs) == reduceFrom(fs, 1, <<>>)

\* mainFile.path.split('/').pop()
baseName(path) == pop(split(path, "/"))

(***************************************************************************)
(* File listings the debrid service may answer with.  Entries carry the    *)
(* service's file id (their position), a path and a byte size.             *)
(***************************************************************************)
Paths ==
    { <<"a",".","t","x","t">>, <<"b",".","m","k","v">>, <<"c",".","m","p","4">>,
      <<"/","d","/","E",".","M","K","V">>, <<"f",".","m","k","v","x">> }

Sizes == {50, 100, 200}

\* The listings of exactly n entries.
FileListings(n) ==
    { [k \in 1..n |-> [id |-> k, path |-> p[k], bytes |-> b[k]]] :
        p \in [1..n -> Paths], b \in [1..n -> Sizes] }

\* The listing of the worked example: a.txt 100, b.mkv 50, c.mp4 200.
ExampleListing ==
    << [id |-> 1, path |-> <<"a",".","t","x","t">>, bytes |-> 100],
       [id |-> 2, path |-> <<"b",".","m","k","v">>, bytes |-> 50],
       [id |-> 3, path |-> <<"c",".","m","p","4">>, bytes |-> 200] >>

(***************************************************************************)
(* The info-hash pattern  /btih:([a-zA-Z0-9]{40})/  and String.match.      *)
(* A match result is <<>> (null) or <<capture 1>>.                         *)
(***************************************************************************)
HashLen == 40

btih == <<"b","t","i","h",":">>

\* The character class [a-zA-Z0-9].
patternChars == Range(LowerChars) \cup Range(UpperChars) \cup Range(DigitChars)

\* Positions where the whole pattern matches (the pattern is not anchored).
matchStarts(s) ==
    { p \in 1..Len(s) :
        /\ p + Len(btih) + HashLen - 1 <= Len(s)
        /\ SubSeq(s, p, p + Len(btih) - 1) = btih
        /\ \A k \in (p + Len(btih))..(p + Len(btih) + HashLen - 1) :
               s[k] \in patternChars }

match(s) ==
    IF matchStarts(s) = {}
    THEN <<>>
    ELSE LET p == CHOOSE q \in matchStarts(s) : \A r \in matchStarts(s) : q <= r
         IN  <<SubSeq(s, p + Len(btih), p + Len(btih) + HashLen - 1)>>

(***************************************************************************)
(* JavaScript values a form field can take: undefined, a string, or an     *)
(* array of strings (querystring.parse answers an array for a repeated     *)
(* field).                                                                 *)
(***************************************************************************)
JsUndef == [arr |-> FALSE, v |-> <<>>]

JsStr(s) == [arr |-> FALSE, v |-> <<s>>]

JsArr(a) == [arr |-> TRUE, v |-> a]

\* Truthiness: undefined and '' are falsy, every array is truthy.
Truthy(x) == x.arr \/ (Len(x.v) = 1 /\ x.v[1] # <<>>)

\* Truthiness of a string-or-undefined value.
truthyStr(s) == s # Undefined /\ s # <<>>

\* a || b on string-or-undefined values.
orElse(a, b) == IF truthyStr(a) THEN a ELSE b

(***************************************************************************)
(* querystring.parse: fields are separated by '&', name and value by the   *)
(* first '='; empty fields are skipped; '+' decodes to a space.  (Percent  *)
(* escapes do not occur in the bodies enumerated below.)                   *)
(***************************************************************************)
qsUnescape(s) == [k \in 1..Len(s) |-> IF s[k] = "+" THEN " " ELSE s[k]]

qsPair(part) ==
    IF \A k \in 1..Len(part) : part[k] # "="
    THEN [k |-> qsUnescape(part), v |-> <<>>]
    ELSE LET e == CHOOSE j \in 1..Len(part) :
                     part[j] = "=" /\ \A h \in 1..(j - 1) : part[h] # "="
         IN  [k |-> qsUnescape(SubSeq(part, 1, e - 1)),
              v |-> qsUnescape(SubSeq(part, e + 1, Len(part)))]

qsParse(body) ==
    LET nonEmpty(part) == part # <<>>
        parts == SelectSeq(split(body, "&"), nonEmpty)
    IN  [k \in 1..Len(parts) |-> qsPair(parts[k])]

\* formData[name]
formField(formData, name) ==
    LET named(pair) == pair.k = name
        hits == SelectSeq(formData, named)
    IN  IF Len(hits) = 0 THEN JsUndef
        ELSE IF Len(hits) = 1 THEN JsStr(hits[1].v)
        ELSE JsArr([k \in 1..Len(hits) |-> hits[k].v])

DEBRID_API_KEY == <<"D","E","B","R","I","D","_","A","P","I","_","K","E","Y">>

(***************************************************************************)
(* Stream descriptors.  shape tells which keys the JavaScript object has:  *)
(* "direct" is {url, title}, "p2p" is {infoHash, sources, title}; the      *)
(* other fields are then empty.  cand is a history field: the position of  *)
(* the candidate the descriptor was made from.                             *)
(***************************************************************************)
\* As p2pStream, but infoHash is the whole match instead of capture 1.
p2pStreamWholeMatch(magnet, infoHashMatch, ttl, k) ==
    [shape |-> "p2p", url |-> "", infoHash |-> btih \o infoHashMatch[1],
     sources |-> <<magnet>>,
     title |-> <<"[","P","2","P","]"," ">> \o Str(ttl)
                   \o <<" ","(","T","o","r","r","e","n","t",")">>,
     cand |-> k]

p2pStream(magnet, infoHashMatch, ttl, k) ==
    [shape |-> "p2p", url |-> "", infoHash |-> infoHashMatch[1],
     sources |-> <<magnet>>,
     title |-> <<"[","P","2","P","]"," ">> \o Str(ttl)
                   \o <<" ","(","T","o","r","r","e","n","t",")">>,
     cand |-> k]

\* As directStream, but the title keeps the whole path of the file.
directStreamFullPath(stream_link, file, k) ==
    [shape |-> "direct", url |-> stream_link, infoHash |-> <<>>,
     sources |-> <<>>,
     title |-> <<"[","R","D","+","]"," ">> \o file.path,
     cand |-> k]

directStream(stream_link, file, k) ==
    [shape |-> "direct", url |-> stream_link, infoHash |-> <<>>,
     sources |-> <<>>,
     title |-> <<"[","R","D","+","]"," ">> \o baseName(file.path),
     cand |-> k]

\* As push, but the descriptor goes to the front (unshift).
unshift(strs, s) == <<s>> \o strs

\* streams.push(s)
push(strs, s) == Append(strs, s)

\* const infoHashMatch = magnet.match(...); if (infoHashMatch && infoHashMatch[1]) push
pushP2P(strs, magnet, ttl, k) ==
    LET infoHashMatch == match(magnet)
    IN  IF infoHashMatch # <<>> /\ infoHashMatch[1] # <<>>
        THEN push(strs, p2pStream(magnet, infoHashMatch, ttl, k))
        ELSE strs

\* As elseFallback, but the candidate is dropped (a warning only).
elseDrop(strs, magnet, ttl, k) == strs

\* The three places of the handler that apply the peer-to-peer logic.
elseFallback(strs, magnet, ttl, k) == pushP2P(strs, magnet, ttl, k)

catchFallback(strs, magnet, ttl, k) == pushP2P(strs, magnet, ttl, k)

noKeyBranch(strs, magnet, ttl, k) == pushP2P(strs, magnet, ttl, k)

\* The for loop when the key is falsy: no iteration awaits anything.
RECURSIVE noKeyLoop(_, _, _, _)
noKeyLoop(magnets, k, strs, ttl) ==
    IF k > Len(magnets) THEN strs
    ELSE noKeyLoop(magnets, k + 1, noKeyBranch(strs, magnets[k], ttl, k), ttl)

\* As tryBlock, but the unrestrict call stands outside the try.
tryBlockBeforeUnrestrict(site) ==
    CASE site = "tmdb" -> "detail"
      [] site \in {"addMagnet", "info", "reduce"} -> "debrid"
      [] OTHER -> "none"

\* Which try block encloses a place where an exception can be thrown.
tryBlock(site) ==
    CASE site = "tmdb" -> "detail"
      [] site \in {"addMagnet", "info", "reduce", "unrestrict"} -> "debrid"
      [] OTHER -> "none"

\* const contentId = id.startsWith('tt') ? id.substring(2) : id
contentIdOf(rid) == IF startsWith(rid, <<"t","t">>) THEN substringFrom(rid, 2) ELSE rid

\* As fallbackTitle, but built from the stripped contentId.
fallbackTitleStripped(rid) ==
    <<"C","o","n","t","e","n","t"," ","I","D",":"," ">> \o contentIdOf(rid)

\* title = `Content ID: ${id}`
fallbackTitle(rid) == <<"C","o","n","t","e","n","t"," ","I","D",":"," ">> \o rid

(***************************************************************************)
(* Inputs: candidate magnets, request ids, answers of the remote services, *)
(* configuration requests.                                                 *)
(***************************************************************************)
MagnetPrefix == <<"m","a","g","n","e","t",":","?","x","t","=","u","r","n",":","b","t","i","h",":">>

M_hexDn == MagnetPrefix \o Rep("B", HashLen) \o <<"&","d","n","=","x">>

M_short == MagnetPrefix \o Rep("a", HashLen - 1)

M_nonHex == MagnetPrefix \o Rep("z", HashLen)

\* A valid hash (with a trailing parameter), a hash the pattern rejects, and
\* a hash of non-hexadecimal characters that the pattern accepts.
Magnets == {M_hexDn, M_short, M_nonHex}

CandidateLists == UNION { [1..n -> Magnets] : n \in 0..MaxCands }

\* As placeholderLinks, but with a magnet hardcoded for testing.
hardcodedLinks == <<M_hexDn>>

\* const potentialMagnetLinks = []  (the search is a placeholder)
placeholderLinks == <<>>

Ids == { <<"t","t","1","2">>, <<"3","4">> }

Types == {"movie", "series"}

NoAnswer == [kind |-> "error", title |-> Undefined, name |-> Undefined,
             release_date |-> Undefined, first_air_date |-> Undefined]

\* kind: "ok" a 2xx answer with a data object, "error" axios rejects,
\* "nodata" a 2xx answer whose data is undefined (reading a property of it
\* throws a TypeError), "nofiles" a data object without a files array
\* (files.reduce throws a TypeError).
TmdbAnswers ==
    { [NoAnswer EXCEPT !.kind = "ok", !.title = <<"F","i","l","m">>,
                       !.release_date = <<"2","0","2","3","-","0","5","-","0","1">>],
      [NoAnswer EXCEPT !.kind = "ok", !.name = <<"S","h","o","w">>,
                       !.first_air_date = <<"2","0","2","1">>],
      [NoAnswer EXCEPT !.kind = "ok"],
      NoAnswer,
      [NoAnswer EXCEPT !.kind = "nodata"] }

AddMagnetAnswers == {"ok", "error", "nodata"}

NoLinks == <<"#undefined">>

\* A listing whose largest video entry lies in a directory: b.mkv 50,
\* /d/E.MKV 100.
DirListing ==
    << [id |-> 1, path |-> <<"b",".","m","k","v">>, bytes |-> 50],
       [id |-> 2, path |-> <<"/","d","/","E",".","M","K","V">>, bytes |-> 100] >>

InspectListings ==
    { <<>>,
      DirListing,
      << [id |-> 1, path |-> <<"a",".","t","x","t">>, bytes |-> 100] >> }

InspectAnswers ==
    { [kind |-> "ok", files |-> f, links |-> l] :
        f \in InspectListings, l \in {NoLinks, <<>>, <<"https://rd/l1">>} }
    \cup { [kind |-> k, files |-> <<>>, links |-> NoLinks] :
               k \in {"error", "nodata", "nofiles"} }

\* stream_link "" stands for an answer without a (truthy) stream_link.
UnrestrictAnswers ==
    { [kind |-> "ok", stream_link |-> "https://rd/dl/1"],
      [kind |-> "ok", stream_link |-> ""],
      [kind |-> "error", stream_link |-> ""],
      [kind |-> "nodata", stream_link |-> ""] }

Methods == {"GET", "POST"}

Bodies ==
    { Undefined, <<>>,
      <<"D","E","B","R","I","D","_","A","P","I","_","K","E","Y","=","k","1">>,
      <<"D","E","B","R","I","D","_","A","P","I","_","K","E","Y","=","k","2">>,
      <<"D","E","B","R","I","D","_","A","P","I","_","K","E","Y","=">>,
      <<"x","=","1">>,
      <<"D","E","B","R","I","D","_","A","P","I","_","K","E","Y","=","&",
        "D","E","B","R","I","D","_","A","P","I","_","K","E","Y","=">> }

(***************************************************************************)
(* Remote calls.  calls is the history of the calls one stream request     *)
(* has issued, in order: the operation, the candidate it was issued for    *)
(* (0 for the metadata lookup), its Authorization header and its argument. *)
(***************************************************************************)
RECURSIVE join(_)
join(a) ==
    IF Len(a) = 0 THEN <<>>
    ELSE IF Len(a) = 1 THEN a[1]
    ELSE a[1] \o <<",">> \o join(Tail(a))

\* As bearer, but the process-wide key is read when the call is issued.
bearerGlobal(key) == <<"B","e","a","r","e","r"," ">> \o join(GLOBAL_DEBRID_API_KEY.v)

\* `Bearer ${debridApiKey}`
bearer(key) == <<"B","e","a","r","e","r"," ">> \o join(key.v)

call(op, k, auth, arg) ==
    [op |-> op, cand |-> k, auth |-> auth, arg |-> arg]

\* .../3/${type === 'movie' ? 'movie' : 'tv'}/${contentId}
tmdbPath(rtype, cid) ==
    (IF rtype = "movie" THEN <<"m","o","v","i","e">> ELSE <<"t","v">>) \o <<"/">> \o cid

TorrentId == <<"T","1">>

(***************************************************************************)
(* Initial state: the module has been loaded, no request is in flight.     *)
(***************************************************************************)
Init ==
    /\ GLOBAL_DEBRID_API_KEY = JsStr(<<>>)
    /\ configureHtml = "none"
    /\ lastPosted = JsStr(<<>>)
    /\ pc = "idle"
    /\ id = <<>>
    /\ type = "movie"
    /\ debridApiKey = JsStr(<<>>)
    /\ contentId = <<>>
    /\ title = <<>>
    /\ year = <<>>
    /\ detailError = "none"
    /\ potentialMagnetLinks = <<>>
    /\ magnetIdx = 0
    /\ streams = <<>>
    /\ files = <<>>
    /\ links = NoLinks
    /\ mainFile = <<>>
    /\ calls = <<>>
    /\ noVideo = {}

(***************************************************************************)
(* Stream handler.  pc is the await the handler is suspended at ("tmdb",   *)
(* "addMagnet", "info", "unrestrict"), or "done" once its promise has      *)
(* resolved with {streams}, or "rejected" if an exception escaped it.      *)
(* detailError is what the catch of the metadata lookup caught ("none" if  *)
(* nothing was thrown).  noVideo is a history variable: the positions of   *)
(* the candidates whose inspect step answered a listing without any        *)
(* video-suffixed entry.                                                   *)
(***************************************************************************)
\* A stream request arrives; the handler runs up to the metadata lookup.
StreamRequest(rid, rtype) ==
    /\ pc \in {"idle", "done", "rejected"}
    /\ id' = rid
    /\ type' = rtype
    /\ streams' = <<>>
    /\ debridApiKey' = GLOBAL_DEBRID_API_KEY
    /\ contentId' = contentIdOf(rid)
    /\ title' = <<>>
    /\ year' = <<>>
    /\ detailError' = "none"
    /\ calls' = <<call("tmdb", 0, <<>>, tmdbPath(rtype, contentIdOf(rid)))>>
    /\ pc' = "tmdb"
    /\ potentialMagnetLinks' = <<>>
    /\ magnetIdx' = 0
    /\ files' = <<>>
    /\ links' = NoLinks
    /\ mainFile' = <<>>
    /\ noVideo' = {}
    /\ UNCHANGED <<GLOBAL_DEBRID_API_KEY, configureHtml, lastPosted>>

\* Candidate k is finished with streams strs: the loop goes on to the next
\* candidate (whose addMagnet call is issued) or the handler returns.
Continue(magnets, k, strs, cs) ==
    /\ streams' = strs
    /\ magnetIdx' = k + 1
    /\ files' = <<>>
    /\ links' = NoLinks
    /\ mainFile' = <<>>
    /\ IF k + 1 <= Len(magnets)
       THEN /\ pc' = "addMagnet"
            /\ calls' = Append(cs, call("addMagnet", k + 1, bearer(debridApiKey),
                                        magnets[k + 1]))
       ELSE /\ pc' = "done"
            /\ calls' = cs

\* An exception is thrown at site while candidate magnetIdx is processed.
Thrown(site) ==
    IF tryBlock(site) = "debrid"
    THEN Continue(potentialMagnetLinks, magnetIdx,
                  catchFallback(streams, potentialMagnetLinks[magnetIdx],
                                title, magnetIdx),
                  calls)
    ELSE /\ pc' = "rejected"
         /\ UNCHANGED <<streams, magnetIdx, files, links, mainFile, calls>>

\* The metadata lookup is answered; magnets is the candidate list the
\* search produces; the handler runs up to its next await or to its return.
TmdbAnswer(ans, magnets) ==
    /\ pc = "tmdb"
    /\ UNCHANGED <<GLOBAL_DEBRID_API_KEY, configureHtml, lastPosted,
                   id, type, debridApiKey, contentId, noVideo>>
    /\ IF ans.kind # "ok" /\ tryBlock("tmdb") # "detail"
       THEN /\ pc' = "rejected"
            /\ detailError' = ans.kind
            /\ UNCHANGED <<title, year, potentialMagnetLinks, magnetIdx,
                           streams, files, links, mainFile, calls>>
       ELSE /\ detailError' = IF ans.kind = "ok" THEN "none" ELSE ans.kind
            /\ title' = IF ans.kind = "ok" THEN orElse(ans.title, ans.name)
                        ELSE fallbackTitle(id)
            /\ year' = IF ans.kind = "ok"
                       THEN substringTo(orElse(orElse(ans.release_date,
                                                      ans.first_air_date), <<>>), 4)
                       ELSE <<>>
            /\ potentialMagnetLinks' = magnets
            /\ IF Truthy(debridApiKey)
               THEN Continue(magnets, 0, <<>>, calls)
               ELSE /\ streams' = noKeyLoop(magnets, 1, <<>>, title')
                    /\ magnetIdx' = Len(magnets) + 1
                    /\ pc' = "done"
                    /\ calls' = calls
                    /\ UNCHANGED <<files, links, mainFile>>

\* Submit (torrents/addMagnet) is answered.
AddMagnetAnswer(kind) ==
    /\ pc = "addMagnet"
    /\ UNCHANGED <<GLOBAL_DEBRID_API_KEY, configureHtml, lastPosted,
                   id, type, debridApiKey, contentId, title, year, detailError,
                   potentialMagnetLinks, noVideo>>
    /\ IF kind = "ok"
       THEN /\ pc' = "info"
            /\ calls' = Append(calls,
                               call("info", magnetIdx, bearer(debridApiKey), TorrentId))
            /\ UNCHANGED <<streams, magnetIdx, files, links, mainFile>>
       ELSE Thrown("addMagnet")

\* Inspect (torrents/info) is answered.
InspectAnswer(ans) ==
    /\ pc = "info"
    /\ UNCHANGED <<GLOBAL_DEBRID_API_KEY, configureHtml, lastPosted,
                   id, type, debridApiKey, contentId, title, year, detailError,
                   potentialMagnetLinks>>
    /\ noVideo' = IF ans.kind = "ok" /\ \A k \in 1..Len(ans.files) : ~isVideo(ans.files[k].path)
                  THEN noVideo \cup {magnetIdx}
                  ELSE noVideo
    /\ IF ans.kind = "ok"
       THEN LET selected == mainFileOf(ans.files)
            IN  IF selected # <<>> /\ ans.links # NoLinks /\ Len(ans.links) > 0
                THEN /\ pc' = "unrestrict"
                     /\ files' = ans.files
                     /\ links' = ans.links
                     /\ mainFile' = selected
                     /\ calls' = Append(calls,
                                        call("unrestrict", magnetIdx,
                                             bearer(debridApiKey), <<ans.links[1]>>))
                     /\ UNCHANGED <<streams, magnetIdx>>
                ELSE Continue(potentialMagnetLinks, magnetIdx,
                              elseFallback(streams, potentialMagnetLinks[magnetIdx],
                                           title, magnetIdx),
                              calls)
       ELSE Thrown(IF ans.kind = "nofiles" THEN "reduce" ELSE "info")

\* Unrestrict (unrestrict/link) is answered.
UnrestrictAnswer(ans) ==
    /\ pc = "unrestrict"
    /\ UNCHANGED <<GLOBAL_DEBRID_API_KEY, configureHtml, lastPosted,
                   id, type, debridApiKey, contentId, title, year, detailError,
                   potentialMagnetLinks, noVideo>>
    /\ IF ans.kind = "ok"
       THEN IF ans.stream_link # ""
            THEN Continue(potentialMagnetLinks, magnetIdx,
                          push(streams, directStream(ans.stream_link, mainFile[1],
                                                     magnetIdx)),
                          calls)
            ELSE Continue(potentialMagnetLinks, magnetIdx, streams,
                          calls)
       ELSE Thrown("unrestrict")

(***************************************************************************)
(* Configure handler.                                                      *)
(***************************************************************************)
\* GLOBAL_DEBRID_API_KEY = debridApiKey
storeKey(current, key) == key

\* The non-empty values a body carries for the DEBRID_API_KEY field.
nonEmptyKeys(body) ==
    LET isKey(pair) == pair.k = DEBRID_API_KEY /\ pair.v # <<>>
    IN  SelectSeq(qsParse(body), isKey)

Configure(method, body) ==
    /\ IF method = "POST" /\ truthyStr(body)
       THEN LET formData == qsParse(body)
                key == formField(formData, DEBRID_API_KEY)
            IN  IF Truthy(key)
                THEN /\ GLOBAL_DEBRID_API_KEY' = storeKey(GLOBAL_DEBRID_API_KEY, key)
                     /\ configureHtml' = "saved"
                ELSE /\ configureHtml' = "error"
                     /\ UNCHANGED GLOBAL_DEBRID_API_KEY
       ELSE /\ configureHtml' = "form"
            /\ UNCHANGED GLOBAL_DEBRID_API_KEY
    \* history: the key of the latest POST that carried a non-empty key
    /\ lastPosted' = IF method = "POST" /\ body # Undefined
                        /\ nonEmptyKeys(body) # <<>>
                     THEN formField(qsParse(body), DEBRID_API_KEY)
                     ELSE lastPosted
    /\ UNCHANGED <<pc, id, type, debridApiKey, contentId, title, year, detailError,
                   potentialMagnetLinks, magnetIdx, streams, files, links,
                   mainFile, calls, noVideo>>

(***************************************************************************)
(* Specifications.                                                         *)
(***************************************************************************)
\* Spec: the resolution over an injected candidate list (the loop body of
\* the stream handler runs), with key-saving configuration requests
\* interleaved at every await.  The request is for one tt-prefixed id, so
\* that id and contentId differ; SpecShipped ranges over every request,
\* metadata answer and configuration request.
Request == StreamRequest(<<"t","t","1","2">>, "movie")

TmdbInjected ==
    \E ans \in {a \in TmdbAnswers : a.title # Undefined \/ a.kind = "error"},
       magnets \in CandidateLists : TmdbAnswer(ans, magnets)

Submit == \E kind \in AddMagnetAnswers : AddMagnetAnswer(kind)

Inspect == \E ans \in InspectAnswers : InspectAnswer(ans)

Unrestrict == \E ans \in UnrestrictAnswers : UnrestrictAnswer(ans)

SaveKey == \E body \in {b \in Bodies : Len(nonEmptyKeys(b)) = 1} : Configure("POST", body)

Next == Request \/ TmdbInjected \/ Submit \/ Inspect \/ Unrestrict \/ SaveKey

Spec == Init /\ [][Next]_vars

\* SpecShipped: the handlers as the source has them, the candidate list
\* being the placeholder, over every request, answer and configuration.
RequestAny == \E rid \in Ids, rtype \in Types : StreamRequest(rid, rtype)

TmdbPlaceholder == \E ans \in TmdbAnswers : TmdbAnswer(ans, placeholderLinks)

Configuration == \E method \in Methods, body \in Bodies : Configure(method, body)

NextShipped == RequestAny \/ TmdbPlaceholder \/ Configuration

SpecShipped == Init /\ [][NextShipped]_vars

\* File selection alone, over every listing of at most MaxFiles entries.
InitSelect ==
    /\ GLOBAL_DEBRID_API_KEY = JsStr(<<>>)
    /\ configureHtml = "none"
    /\ lastPosted = JsStr(<<>>)
    /\ pc = "reduce"
    /\ id = <<>>
    /\ type = "movie"
    /\ debridApiKey = JsStr(<<>>)
    /\ contentId = <<>>
    /\ title = <<>>
    /\ year = <<>>
    /\ detailError = "none"
    /\ potentialMagnetLinks = <<>>
    /\ magnetIdx = 0
    /\ streams = <<>>
    /\ \E n \in 0..MaxFiles : files \in FileListings(n)
    /\ links = NoLinks
    /\ mainFile = <<>>
    /\ calls = <<>>
    /\ noVideo = {}

SelectMainFile ==
    /\ pc = "reduce"
    /\ mainFile' = mainFileOf(files)
    /\ pc' = "reduced"
    /\ UNCHANGED <<GLOBAL_DEBRID_API_KEY, configureHtml, lastPosted, id, type,
                   debridApiKey, contentId, title, year, detailError,
                   potentialMagnetLinks, magnetIdx, streams, files, links, calls,
                   noVideo>>

SpecSelect == InitSelect /\ [][SelectMainFile]_vars

(***************************************************************************)
(* Notions the properties are stated with.                                 *)
(***************************************************************************)
HexChars == Range(DigitChars) \cup {"a","b","c","d","e","f","A","B","C","D","E","F"}

\* The content hash of a candidate: the text after the first "btih:" up to
\* the next "&" or the end; empty if the reference has no "btih:".
hashOf(magnet) ==
    LET starts == { p \in 1..Len(magnet) :
                      /\ p + Len(btih) - 1 <= Len(magnet)
                      /\ SubSeq(magnet, p, p + Len(btih) - 1) = btih }
    IN  IF starts = {} THEN <<>>
        ELSE LET p == CHOOSE q \in starts : \A r \in starts : q <= r
             IN  split(SubSeq(magnet, p + Len(btih), Len(magnet)), "&")[1]

\* The fixed-length hex pattern: exactly HashLen hexadecimal characters.
validHash(magnet) ==
    /\ Len(hashOf(magnet)) = HashLen
    /\ \A k \in 1..HashLen : hashOf(magnet)[k] \in HexChars

\* Positions in streams of the descriptors made from candidate k.
descriptorsOf(k) == { j \in 1..Len(streams) : streams[j].cand = k }

\* The allow-list of suffixes, and "ends case-insensitively in one of them".
AllowedSuffixes ==
    { <<".","m","k","v">>, <<".","m","p","4">>, <<".","a","v","i">>,
      <<".","m","o","v">>, <<".","w","e","b","m">> }

lowerChar(c) ==
    IF \E j \in 1..26 : UpperChars[j] = c
    THEN LowerChars[CHOOSE j \in 1..26 : UpperChars[j] = c]
    ELSE c

hasAllowedSuffix(path) ==
    \E ext \in AllowedSuffixes :
        /\ Len(path) >= Len(ext)
        /\ \A k \in 1..Len(ext) : lowerChar(path[Len(path) - Len(ext) + k]) = ext[k]

\* Positions in files of the video-suffixed entries, and of the largest ones.
videoIdx == { k \in 1..Len(files) : hasAllowedSuffix(files[k].path) }

largestIdx == { k \in videoIdx : \A j \in videoIdx : files[k].bytes >= files[j].bytes }

minOf(S) == CHOOSE k \in S : \A j \in S : k <= j

maxOf(S) == CHOOSE k \in S : \A j \in S : k >= j

(***************************************************************************)
(* C1: with a credential, every failure of the unlock protocol for a       *)
(* candidate falls back to the peer-to-peer logic: when the resolution is  *)
(* done, every candidate with a valid hash that got no direct-URL          *)
(* descriptor has a peer-to-peer descriptor.                               *)
(***************************************************************************)
C1_FallbackOnEveryFailure ==
    (pc = "done" /\ Truthy(debridApiKey)) =>
        \A k \in 1..Len(potentialMagnetLinks) :
            (/\ validHash(potentialMagnetLinks[k])
             /\ \A j \in descriptorsOf(k) : streams[j].shape # "direct")
            => \E j \in descriptorsOf(k) : streams[j].shape = "p2p"

(***************************************************************************)
(* C2 (as amended): when two or more video-suffixed entries share the      *)
(* largest byte size, the selected file is the latest-seen of them in      *)
(* listing order.                                                          *)
(***************************************************************************)
C2_TieKeepsLatest ==
    (pc = "reduced" /\ Cardinality(largestIdx) >= 2) =>
        mainFile = <<files[maxOf(largestIdx)]>>

C2_Witness ==
    /\ pc = "reduced"
    /\ Cardinality(largestIdx) >= 2
    /\ mainFile # <<>>
    /\ mainFile[1].id = maxOf(largestIdx)
    /\ mainFile[1].id # minOf(largestIdx)

\* C2 as stated: on a tie the earliest-seen of the largest entries is selected.
C2_TieKeepsEarliest ==
    (pc = "reduced" /\ Cardinality(largestIdx) >= 2) =>
        mainFile = <<files[minOf(largestIdx)]>>

(***************************************************************************)
(* C3: the selected file is an entry with an allow-listed suffix whose     *)
(* byte size is at least that of every other such entry; no file is        *)
(* selected exactly when no entry has an allow-listed suffix; for the      *)
(* listing a.txt 100, b.mkv 50, c.mp4 200 the selection is c.mp4.          *)
(***************************************************************************)
C3_LargestVideoSelected ==
    pc = "reduced" =>
        /\ (mainFile = <<>>) <=> (videoIdx = {})
        /\ mainFile # <<>> => \E k \in largestIdx : mainFile[1] = files[k]
        /\ files = ExampleListing => mainFile = <<ExampleListing[3]>>

C3_Witness ==
    /\ pc = "reduced"
    /\ files = ExampleListing
    /\ mainFile # <<>>
    /\ mainFile[1].path = <<"c",".","m","p","4">>

(***************************************************************************)
(* C4: a peer-to-peer descriptor is emitted from a candidate only if the   *)
(* candidate's hash is exactly 40 hexadecimal characters.                  *)
(***************************************************************************)
C4_P2POnlyForHexHash ==
    \A j \in 1..Len(streams) :
        streams[j].shape = "p2p" => validHash(potentialMagnetLinks[streams[j].cand])

(***************************************************************************)
(* C5: without a credential, a candidate with a valid hash gets exactly    *)
(* one descriptor, of peer-to-peer shape, whose infoHash is the            *)
(* candidate's hash and whose sources is the one-element list of the raw   *)
(* reference; no unlock-service call is made.                              *)
(***************************************************************************)
C5_NoKeyValidHash ==
    (pc = "done" /\ ~Truthy(debridApiKey)) =>
        \A k \in 1..Len(potentialMagnetLinks) :
            validHash(potentialMagnetLinks[k]) =>
                /\ Cardinality(descriptorsOf(k)) = 1
                /\ \A j \in descriptorsOf(k) :
                       /\ streams[j].shape = "p2p"
                       /\ streams[j].infoHash = hashOf(potentialMagnetLinks[k])
                       /\ streams[j].sources = <<potentialMagnetLinks[k]>>
                /\ \A c \in 1..Len(calls) : calls[c].op = "tmdb" /\ calls[c].cand # k

C5_Witness ==
    /\ pc = "done"
    /\ ~Truthy(debridApiKey)
    /\ \E k \in 1..Len(potentialMagnetLinks) :
           /\ validHash(potentialMagnetLinks[k])
           /\ potentialMagnetLinks[k] = M_hexDn
           /\ descriptorsOf(k) # {}

(***************************************************************************)
(* C6: each candidate contributes at most one descriptor and the output    *)
(* descriptors are in the order of the candidates they came from.          *)
(***************************************************************************)
C6_OrderPreserved ==
    /\ \A j \in 1..Len(streams) : streams[j].cand \in 1..Len(potentialMagnetLinks)
    /\ \A a, b \in 1..Len(streams) : a < b => streams[a].cand < streams[b].cand

C6_Witness ==
    /\ pc = "done"
    /\ Len(streams) = 2
    /\ streams[1].shape = "direct"
    /\ streams[2].shape = "p2p"

(***************************************************************************)
(* C7: the handler's candidate list is always empty, so every stream       *)
(* request resolves to an empty streams list and issues no submit, inspect *)
(* or unrestrict call, whether or not a credential is set.                 *)
(***************************************************************************)
C7_AlwaysEmpty ==
    /\ potentialMagnetLinks = <<>>
    /\ streams = <<>>
    /\ pc \in {"idle", "tmdb", "done"}
    /\ \A c \in 1..Len(calls) : calls[c].op = "tmdb"

C7_Witness ==
    /\ pc = "done"
    /\ Truthy(debridApiKey)
    /\ streams = <<>>
    /\ Len(calls) = 1

(***************************************************************************)
(* C8: no per-candidate failure aborts the batch: the handler never        *)
(* rejects, and when it resolves it has gone through every candidate       *)
(* (with a credential: it has submitted every candidate).                  *)
(***************************************************************************)
C8_NeverRejects ==
    /\ pc # "rejected"
    /\ pc = "done" =>
          /\ magnetIdx = Len(potentialMagnetLinks) + 1
          /\ Truthy(debridApiKey) =>
                \A k \in 1..Len(potentialMagnetLinks) :
                    \E c \in 1..Len(calls) :
                        calls[c].op = "addMagnet" /\ calls[c].cand = k

\* The first candidate failed at unrestrict and was replaced by its fallback;
\* the second one was still unlocked.
C8_Witness ==
    /\ pc = "done"
    /\ Len(potentialMagnetLinks) = 2
    /\ \E c \in 1..Len(calls) : calls[c].op = "unrestrict" /\ calls[c].cand = 1
    /\ Len(streams) = 2
    /\ streams[1].shape = "p2p"
    /\ streams[2].shape = "direct"

(***************************************************************************)
(* C9: the credential is last-write-wins: once a configuration POST has    *)
(* carried a non-empty key, a stream resolution that starts uses the key   *)
(* of the most recent such POST.                                           *)
(***************************************************************************)
C9_LatestKeyUsed ==
    [][(Truthy(lastPosted) /\ pc # "tmdb" /\ pc' = "tmdb")
          => debridApiKey' = lastPosted]_vars

(***************************************************************************)
(* C10: a failure of the metadata lookup never fails the stream request:   *)
(* the title is the fallback label built from the raw id, and every        *)
(* peer-to-peer descriptor then emitted carries that label.                *)
(***************************************************************************)
C10_FallbackLabel ==
    detailError # "none" =>
        /\ pc # "rejected"
        /\ title = <<"C","o","n","t","e","n","t"," ","I","D",":"," ">> \o id
        /\ \A j \in 1..Len(streams) :
               streams[j].shape = "p2p" =>
                   streams[j].title =
                       <<"[","P","2","P","]"," ","C","o","n","t","e","n","t"," ","I","D",":"," ">>
                       \o id \o <<" ","(","T","o","r","r","e","n","t",")">>

C10_Witness ==
    /\ pc = "done"
    /\ detailError # "none"
    /\ \E j \in 1..Len(streams) : streams[j].shape = "p2p"

(***************************************************************************)
(* Notions of the properties about the unlock protocol and the credential. *)
(***************************************************************************)
\* The operations of the calls issued for candidate k, in order of issue.
opsOf(cs, k) ==
    LET forK(c) == c.cand = k
        mine == SelectSeq(cs, forK)
    IN  [j \in 1..Len(mine) |-> mine[j].op]

\* Positions in a streams list of the direct-URL descriptors.
directsOf(strs) == { j \in 1..Len(strs) : strs[j].shape = "direct" }

\* The part of a path after its last "/" (the whole path if it has none).
afterLastSlash(path) ==
    LET slashes == { k \in 1..Len(path) : path[k] = "/" }
    IN  IF slashes = {} THEN path
        ELSE SubSeq(path, maxOf(slashes) + 1, Len(path))

\* The Authorization header made of a credential value.
headerOf(key) ==
    <<"B","e","a","r","e","r"," ">>
    \o (IF Len(key.v) = 0 THEN <<>>
        ELSE IF Len(key.v) = 1 THEN key.v[1]
        ELSE key.v[1] \o <<",">> \o key.v[2])

\* A credential value that holds at least one non-empty key.
hasNonEmptyKey(key) == \E j \in 1..Len(key.v) : key.v[j] # <<>>

(***************************************************************************)
(* C11: with a credential, when submit and inspect succeed but the listing *)
(* holds no video-suffixed entry, the candidate falls back to a            *)
(* peer-to-peer descriptor if its hash is valid, and unrestrict is never   *)
(* called for it.                                                          *)
(***************************************************************************)
C11_NoVideoFallsBack ==
    \A k \in noVideo :
        /\ Truthy(debridApiKey)
        /\ opsOf(calls, k) = <<"addMagnet", "info">>
        /\ validHash(potentialMagnetLinks[k]) =>
               /\ Cardinality(descriptorsOf(k)) = 1
               /\ \A j \in descriptorsOf(k) :
                      /\ streams[j].shape = "p2p"
                      /\ streams[j].infoHash = hashOf(potentialMagnetLinks[k])

C11_Witness ==
    /\ pc = "done"
    /\ \E k \in noVideo :
           /\ validHash(potentialMagnetLinks[k])
           /\ \E j \in descriptorsOf(k) : streams[j].shape = "p2p"

(***************************************************************************)
(* C12: a direct-URL descriptor is appended for a candidate only when the  *)
(* answer of unrestrict arrives, after submit, inspect and unrestrict were *)
(* issued for it in that order, inspect having yielded a selected file and *)
(* a ready locator; its url is the locator unrestrict returned and its     *)
(* title is "[RD+] " followed by the selected file's base name.            *)
(***************************************************************************)
C12_DirectOnlyAfterUnlock ==
    [][Cardinality(directsOf(streams')) > Cardinality(directsOf(streams)) =>
          LET d == streams'[Len(streams')]
          IN  /\ pc = "unrestrict"
              /\ opsOf(calls, magnetIdx) = <<"addMagnet", "info", "unrestrict">>
              /\ mainFile # <<>>
              /\ \E k \in largestIdx : mainFile[1] = files[k]
              /\ links # NoLinks /\ Len(links) > 0
              /\ calls[Len(calls)].arg = <<links[1]>>
              /\ d.shape = "direct"
              /\ d.cand = magnetIdx
              /\ d.url \in {a.stream_link : a \in UnrestrictAnswers} \ {""}
              /\ d.title = <<"[","R","D","+","]"," ">> \o afterLastSlash(mainFile[1].path)
              /\ SubSeq(streams', 1, Len(streams)) = streams]_vars

C12_Witness ==
    /\ pc = "done"
    /\ \E j \in 1..Len(streams) :
           /\ streams[j].shape = "direct"
           /\ streams[j].url = "https://rd/dl/1"
           /\ streams[j].title = <<"[","R","D","+","]"," ","E",".","M","K","V">>
           /\ opsOf(calls, streams[j].cand) = <<"addMagnet", "info", "unrestrict">>

(***************************************************************************)
(* C13: a resolution reads the process-wide credential once, when it       *)
(* starts: while it is in flight its key does not change, whatever         *)
(* configuration POST interleaves; every unlock call carries that key, and *)
(* unlock calls are made exactly when that key is truthy.                  *)
(***************************************************************************)
C13_SnapshotAtStart ==
    [][/\ (pc # "tmdb" /\ pc' = "tmdb") => debridApiKey' = GLOBAL_DEBRID_API_KEY
       /\ pc \in {"tmdb", "addMagnet", "info", "unrestrict"} => debridApiKey' = debridApiKey
       /\ \A c \in 1..Len(calls') :
              calls'[c].op # "tmdb" =>
                  /\ calls'[c].auth = headerOf(debridApiKey')
                  /\ Truthy(debridApiKey')
       /\ (pc' = "done" /\ Truthy(debridApiKey')) =>
              \A k \in 1..Len(potentialMagnetLinks') : opsOf(calls', k) # <<>>]_vars

\* The key was overwritten while the resolution was in flight; the pending
\* unrestrict call still carries the key read at the start.
C13_Witness ==
    /\ pc = "unrestrict"
    /\ Truthy(GLOBAL_DEBRID_API_KEY)
    /\ Truthy(debridApiKey)
    /\ GLOBAL_DEBRID_API_KEY # debridApiKey
    /\ calls[Len(calls)].auth = headerOf(debridApiKey)
    /\ calls[Len(calls)].auth # headerOf(GLOBAL_DEBRID_API_KEY)

(***************************************************************************)
(* C14: the stored credential changes only on a POST whose body carries a  *)
(* non-empty DEBRID_API_KEY (answered with the saved page); every other    *)
(* request leaves it unchanged; once it holds a non-empty key it never     *)
(* becomes empty again.                                                    *)
(***************************************************************************)
C14_ChangedOnlyByKeyPost ==
    [][/\ GLOBAL_DEBRID_API_KEY' # GLOBAL_DEBRID_API_KEY =>
              /\ configureHtml' = "saved"
              /\ hasNonEmptyKey(GLOBAL_DEBRID_API_KEY')
              /\ GLOBAL_DEBRID_API_KEY' = lastPosted'
       /\ hasNonEmptyKey(GLOBAL_DEBRID_API_KEY) => hasNonEmptyKey(GLOBAL_DEBRID_API_KEY')]_vars

====
